---- MODULE Spec2Model ----
(***************************************************************************)
(* State-machine model of pkg/controller/controller.go: the CRD installer  *)
(* (addCRD), the startup task (startAux), the event reactor                *)
(* (processResources) and the synchronizer (synchronize/newDeployment).    *)
(*                                                                         *)
(* The API server and the rate limiter are collaborators reached through   *)
(* kubeapi.KubeClient and ratelimit.RateLimiter; they are modelled by      *)
(* their interface contract.  The API server's deployments are             *)
(* represented as the reactor's snapshot overridden by `inflight`, the     *)
(* results of the controller's own successful calls whose watch event has  *)
(* not been delivered yet; a change made by anybody else is delivered by   *)
(* ManagedUpsert/ManagedDelete, and a call that loses a race against such  *)
(* a change is one of the failing outcomes of Tick.                        *)
(***************************************************************************)
EXTENDS Integers, Sequences, FiniteSets, TLC

\* ------------------------------------------------------------- bounds
\* number of deliveries (items and close notifications) of the two instance
\* watches that the reactor handles
MaxEvents == 2
\* resource versions (opaque concurrency tokens) range over 1..MaxRV
MaxRV == 2
\* ticks the rate limiter can owe at one time
MaxTicks == 2
MaxStops == 2
\* deliveries beyond MaxEvents that DeepSpec allows
Slack == 1

\* ------------------------------------------------------------- constants
Kind == "Foo"

FooNames == {"x", "y"}
\* replica counts; synchronize only compares them for equality
Replicas == {1, 2}
DepNames == {"d1", "d2"}

\* metadata.uid the API server gave each Foo
FooUID(n) == IF n = "x" THEN 1 ELSE 2

OwnerReference(kind, name, uid, controller) ==
    [kind |-> kind, name |-> name, uid |-> uid, controller |-> controller]

\* Owner-reference lists carried by deployments that somebody other than this
\* controller wrote: none; Foo x as controller; a Foo y that is gone (another
\* UID) as controller; a controller of another kind carrying the UID of Foo x;
\* Foo y as plain owner before Foo x as controller.
ForeignOwnerLists ==
    { <<>>,
      << OwnerReference(Kind, "x", 1, TRUE) >>,
      << OwnerReference(Kind, "y", 3, TRUE) >>,
      << OwnerReference("ReplicaSet", "x", 1, TRUE) >>,
      << OwnerReference(Kind, "y", 2, FALSE), OwnerReference(Kind, "x", 1, TRUE) >> }

VARIABLES
    pc,              \* position of the startAux goroutine
    err,             \* addCRD: result of client.AddCustomResourceDefinition
    res,             \* addCRD: last delivery read from the schema watch
    foosCh,          \* "unopened" | "open" | "nil"
    deploymentsCh,   \* "unopened" | "open" | "nil"
    foos,            \* status.foos: name -> Foo
    deployments,     \* status.deployments: name -> Deployment
    todo,            \* status.todo: set of Foo names
    rl,              \* rate limiter: number of ticks it still owes
    inflight,        \* deployments written by our calls, event not delivered yet
    sending,         \* error the goroutine is blocked sending on c.Errors
    errorsSent,      \* errors received from c.Errors so far
    errorsClosed,    \* number of close(c.Errors) executed
    last,            \* which select case the reactor ran last
    ev,              \* the item that case received (d or f): its name, IsDelete
    calls,           \* client calls issued by the last synchronize
    nEvents,         \* deliveries of the instance watches handled so far (less Slack in DeepSpec)
    passes,          \* parity of the number of synchronize calls made so far
    stopFoos,        \* c.stopFoos: "nil", or its channel "open" | "closed"
    stopDeployments, \* c.stopDeployments: likewise
    stopPc,          \* the caller of RequestStop: "idle", or "mid" between the two ifs
    nStops,          \* RequestStop calls begun so far
    everFoos         \* names that have been keys of status.foos in this run

vars == << pc, err, res, foosCh, deploymentsCh, foos, deployments, todo, rl, inflight,
           sending, errorsSent, errorsClosed, last, ev, calls, nEvents, passes,
           stopFoos, stopDeployments, stopPc, nStops, everFoos >>

\* ------------------------------------------------------------- maps
Put(m, k, v) == (k :> v) @@ m
Del(m, k) == [j \in (DOMAIN m) \ {k} |-> m[j]]
EmptyMap == << >>

\* ------------------------------------------------------------- addCRD
\* values of the Go `error` returned by client.AddCustomResourceDefinition:
\* nil, a *kubeapi.RequestError with a status code, or an error of another type
NoErr == [isNil |-> TRUE, isRequestError |-> FALSE, StatusCode |-> 0]
RequestError(code) == [isNil |-> FALSE, isRequestError |-> TRUE, StatusCode |-> code]
OtherError == [isNil |-> FALSE, isRequestError |-> FALSE, StatusCode |-> 0]
CreateResults == {NoErr, RequestError(409), RequestError(500), OtherError}

\* if re, ok := err.(*kubeapi.RequestError); ok && re.StatusCode != 409 { return re }
CreateIsFatal(e) == e.isRequestError /\ e.StatusCode # 409

\* what the schema watch can deliver: a WatchEvent, or the end of the stream
NoDelivery == [closed |-> FALSE, Err |-> FALSE, IsDelete |-> FALSE, Conditions |-> << >>, none |-> TRUE]
WatchItem(isDelete, conds) ==
    [closed |-> FALSE, Err |-> FALSE, IsDelete |-> isDelete, Conditions |-> conds, none |-> FALSE]
WatchErr == [closed |-> FALSE, Err |-> TRUE, IsDelete |-> FALSE, Conditions |-> << >>, none |-> FALSE]
WatchClosed == [closed |-> TRUE, Err |-> FALSE, IsDelete |-> FALSE, Conditions |-> << >>, none |-> FALSE]
Condition(type, status) == [Type |-> type, Status |-> status]
ConditionLists ==
    { << >>,
      << Condition("NamesAccepted", "True") >>,
      << Condition("Established", "False") >>,
      << Condition("NamesAccepted", "True"), Condition("Established", "True") >> }
SchemaDeliveries ==
    {WatchErr, WatchClosed} \cup {WatchItem(d, c) : d \in BOOLEAN, c \in ConditionLists}

\* for _, cond := range item.Status.Conditions { if cond.Type == "Established" && ... }
IsEstablished(conds) ==
    \E i \in 1..Len(conds) : conds[i].Type = "Established" /\ conds[i].Status = "True"

\* where the range loop over `resources` goes after reading delivery r
AfterDelivery(r) ==
    IF r.closed THEN "getFoos"
    ELSE IF r.Err THEN "sendErr"
    ELSE IF r.IsDelete THEN "watchCRD"
    ELSE IF IsEstablished(r.Conditions) THEN "getFoos"
    ELSE "watchCRD"

\* ------------------------------------------------------------- records
Foo(name, deploymentName, replicas) ==
    [name |-> name, uid |-> FooUID(name), deploymentName |-> deploymentName,
     replicas |-> replicas]
FooItems == {Foo(n, d, r) : n \in FooNames, d \in DepNames, r \in Replicas}

Deployment(name, replicas, refs, rv) ==
    [name |-> name, replicas |-> replicas, ownerReferences |-> refs,
     resourceVersion |-> rv]

\* metav1.GetControllerOf: index of the first reference with Controller set, or 0
GetControllerOf(refs) ==
    IF \E i \in 1..Len(refs) : refs[i].controller
    THEN CHOOSE i \in 1..Len(refs) :
            refs[i].controller /\ \A j \in 1..(i - 1) : ~refs[j].controller
    ELSE 0

\* metav1.IsControlledBy(&dep, &foo): the controller reference carries foo's UID
IsControlledBy(dep, foo) ==
    LET i == GetControllerOf(dep.ownerReferences)
    IN  i # 0 /\ dep.ownerReferences[i].uid = foo.uid

\* metav1.NewControllerRef(foo, GroupVersionKind{Group, Version, Kind})
NewControllerRef(foo) == OwnerReference(Kind, foo.name, foo.uid, TRUE)

\* resource version of an object not stored yet (the empty string)
NoRV == 0

\* mutant of newDeployment: Name taken from a fixed name, not from
\* foo.Spec.DeploymentName (line 138)
newDeploymentOldName(foo) ==
    Deployment("d1", foo.replicas, << NewControllerRef(foo) >>, NoRV)

newDeployment(foo) ==
    Deployment(foo.deploymentName, foo.replicas, << NewControllerRef(foo) >>, NoRV)

\* ------------------------------------------------------------- API server
\* the deployments the API server holds
Cluster(snapshot, infl) == infl @@ snapshot

Bump(rv) == (rv % MaxRV) + 1
NextRV(cluster, name) ==
    IF name \in DOMAIN cluster THEN Bump(cluster[name].resourceVersion) ELSE 1

\* create is rejected when the name exists; update when the object is missing
\* or the resource version is stale
ServerAccepts(op, obj, cluster) ==
    IF op = "create"
    THEN obj.name \notin DOMAIN cluster
    ELSE /\ obj.name \in DOMAIN cluster
         /\ obj.resourceVersion = cluster[obj.name].resourceVersion

Stored(obj, cluster) == [obj EXCEPT !.resourceVersion = NextRV(cluster, obj.name)]

\* ------------------------------------------------------------- synchronize
\* mutant of Branch: the IsControlledBy test (lines 175-180) left out
BranchNoOwnerTest(item, fs, deps) ==
    IF item \notin DOMAIN fs THEN "gone"
    ELSE LET foo == fs[item]
             has_dep == foo.deploymentName \in DOMAIN deps
         IN  IF has_dep /\ foo.replicas = deps[foo.deploymentName].replicas
                 THEN "converged"
             ELSE IF has_dep THEN "update"
             ELSE "create"

\* which branch of the loop body synchronize takes for a name in status.todo
Branch(item, fs, deps) ==
    IF item \notin DOMAIN fs THEN "gone"
    ELSE LET foo == fs[item]
             has_dep == foo.deploymentName \in DOMAIN deps
         IN  IF has_dep /\ ~IsControlledBy(deps[foo.deploymentName], foo)
                 THEN "conflict"
             ELSE IF has_dep /\ foo.replicas = deps[foo.deploymentName].replicas
                 THEN "converged"
             ELSE IF has_dep THEN "update"
             ELSE "create"

\* mutant of NewDep: newDep.ResourceVersion = dep.ResourceVersion (line 190)
\* left out
NewDepNoToken(foo, deps) == newDeployment(foo)

\* the object passed to client.UpdateDeployment / client.AddDeployment
NewDep(foo, deps) ==
    IF foo.deploymentName \in DOMAIN deps
    THEN [newDeployment(foo) EXCEPT
            !.resourceVersion = deps[foo.deploymentName].resourceVersion]
    ELSE newDeployment(foo)

Call(op, item, obj, ok) == [op |-> op, item |-> item, obj |-> obj, ok |-> ok]

\* mutant of SyncItem: delete(status.todo, item) after a successful call
\* (line 198) left out
SyncItemKeepCalled(item, failAt, st, fs, deps) ==
    LET b == Branch(item, fs, deps)
    IN  IF b \in {"gone", "converged"} THEN [st EXCEPT !.todo = @ \ {item}]
        ELSE IF b = "conflict" THEN st
        ELSE LET obj == NewDep(fs[item], deps)
                 cluster == Cluster(deps, st.inflight)
                 ok == ServerAccepts(b, obj, cluster) /\ Len(st.calls) + 1 # failAt
             IN  IF ok
                 THEN [todo |-> st.todo,
                       inflight |-> Put(st.inflight, obj.name, Stored(obj, cluster)),
                       calls |-> Append(st.calls, Call(b, item, obj, TRUE)),
                       err |-> FALSE]
                 ELSE [st EXCEPT !.calls = Append(@, Call(b, item, obj, FALSE)),
                                 !.err = TRUE]

\* mutant of SyncItem: delete(status.todo, item) for a name without Foo
\* (line 169) left out
SyncItemKeepGone(item, failAt, st, fs, deps) ==
    LET b == Branch(item, fs, deps)
    IN  IF b = "converged" THEN [st EXCEPT !.todo = @ \ {item}]
        ELSE IF b \in {"conflict", "gone"} THEN st
        ELSE LET obj == NewDep(fs[item], deps)
                 cluster == Cluster(deps, st.inflight)
                 ok == ServerAccepts(b, obj, cluster) /\ Len(st.calls) + 1 # failAt
             IN  IF ok
                 THEN [todo |-> st.todo \ {item},
                       inflight |-> Put(st.inflight, obj.name, Stored(obj, cluster)),
                       calls |-> Append(st.calls, Call(b, item, obj, TRUE)),
                       err |-> FALSE]
                 ELSE [st EXCEPT !.calls = Append(@, Call(b, item, obj, FALSE)),
                                 !.err = TRUE]

\* one iteration of `for item := range status.todo`; st is the state of the
\* pass (todo, the server's pending writes, the calls made, the error);
\* the failAt-th call of the pass fails whatever the server holds
SyncItem(item, failAt, st, fs, deps) ==
    LET b == Branch(item, fs, deps)
    IN  IF b \in {"gone", "converged"} THEN [st EXCEPT !.todo = @ \ {item}]
        ELSE IF b = "conflict" THEN st
        ELSE LET obj == NewDep(fs[item], deps)
                 cluster == Cluster(deps, st.inflight)
                 ok == ServerAccepts(b, obj, cluster) /\ Len(st.calls) + 1 # failAt
             IN  IF ok
                 THEN [todo |-> st.todo \ {item},
                       inflight |-> Put(st.inflight, obj.name, Stored(obj, cluster)),
                       calls |-> Append(st.calls, Call(b, item, obj, TRUE)),
                       err |-> FALSE]
                 ELSE [st EXCEPT !.calls = Append(@, Call(b, item, obj, FALSE)),
                                 !.err = TRUE]

\* mutant of SyncLoop: `return err` (lines 194-196) left out, the loop goes on
RECURSIVE SyncLoopNoAbort(_, _, _, _, _, _)
SyncLoopNoAbort(order, i, failAt, st, fs, deps) ==
    IF i > Len(order) THEN st
    ELSE SyncLoopNoAbort(order, i + 1, failAt,
                         SyncItem(order[i], failAt, st, fs, deps), fs, deps)

RECURSIVE SyncLoop(_, _, _, _, _, _)
SyncLoop(order, i, failAt, st, fs, deps) ==
    IF i > Len(order) \/ st.err THEN st
    ELSE SyncLoop(order, i + 1, failAt, SyncItem(order[i], failAt, st, fs, deps), fs, deps)

\* synchronize(client, &status), the map being ranged over in `order`
synchronize(order, failAt, fs, deps, td, infl) ==
    SyncLoop(order, 1, failAt,
             [todo |-> td, inflight |-> infl, calls |-> << >>, err |-> FALSE], fs, deps)

\* the orders in which `range` can visit the keys of a map
Orders(S) ==
    {o \in [1..Cardinality(S) -> S] : \A i, j \in DOMAIN o : i # j => o[i] # o[j]}

\* what the properties keep of a received WatchEvent: the item's name,
\* IsDelete, and for a Foo the deployment name the Foo had in status.foos
\* before the event ("" if it had none)
Event(name, isDelete, old) == [name |-> name, IsDelete |-> isDelete, old |-> old]
NoEvent == Event("", FALSE, "")

\* ------------------------------------------------------------- rate limiter
\* c.rl.AskTick() with r ticks owed: the request is coalesced with the
\* outstanding ones, or one more tick is owed
AskTick(r) == {IF r = 0 THEN 1 ELSE r} \cup {t \in {r + 1} : r # 0 /\ t <= MaxTicks}

\* ------------------------------------------------------------- processResources
\* mutant of BothClosed: `||` written for `&&`
EitherClosed(dc, fc) == dc = "nil" \/ fc = "nil"

\* "We are done if both channels were closed"
BothClosed(dc, fc) == dc = "nil" /\ fc = "nil"

\* mutant of FirstOfKind: the `if o.Kind == Kind` test left out
FirstOwner(refs) == IF Len(refs) > 0 THEN 1 ELSE 0

\* the name the `for _, o := range item.OwnerReferences` loop adds to todo
FirstOfKind(refs) ==
    IF \E i \in 1..Len(refs) : refs[i].kind = Kind
    THEN CHOOSE i \in 1..Len(refs) :
            refs[i].kind = Kind /\ \A j \in 1..(i - 1) : refs[j].kind # Kind
    ELSE 0

Init ==
    /\ pc = "addCRD"
    /\ err = NoErr
    /\ res = NoDelivery
    /\ foosCh = "unopened"
    /\ deploymentsCh = "unopened"
    /\ foos = EmptyMap
    /\ deployments = EmptyMap
    /\ todo = {}
    /\ rl = 0
    /\ inflight = EmptyMap
    /\ sending = "none"
    /\ errorsSent = << >>
    /\ errorsClosed = 0
    /\ last = "none"
    /\ ev = NoEvent
    /\ calls = << >>
    /\ nEvents = 0
    /\ passes = 0
    /\ stopFoos = "nil"
    /\ stopDeployments = "nil"
    /\ stopPc = "idle"
    /\ nStops = 0
    /\ everFoos = {}

Silent == UNCHANGED << last, ev, calls, passes, everFoos >>
StopUnchanged == UNCHANGED << stopFoos, stopDeployments, stopPc, nStops >>
StatusUnchanged == UNCHANGED << foos, deployments, todo, rl, inflight, nEvents >>
ErrorsUnchanged == UNCHANGED << errorsSent, errorsClosed >>

\* addCRD, up to the create call and the test of its error
AddCRD(e) ==
    /\ pc = "addCRD"
    /\ err' = e
    /\ IF CreateIsFatal(e)
         THEN pc' = "sendErr" /\ sending' = "Could not add CRD"
         ELSE pc' = "watchCRD" /\ sending' = sending
    /\ UNCHANGED << res, foosCh, deploymentsCh >>
    /\ StatusUnchanged /\ ErrorsUnchanged /\ Silent /\ StopUnchanged

\* addCRD: one iteration of `for res := range resources`
WatchCRD(r) ==
    /\ pc = "watchCRD"
    /\ res' = r
    /\ pc' = AfterDelivery(r)
    /\ sending' = IF AfterDelivery(r) = "sendErr" THEN "Could not add CRD" ELSE sending
    /\ UNCHANGED << err, foosCh, deploymentsCh >>
    /\ StatusUnchanged /\ ErrorsUnchanged /\ Silent /\ StopUnchanged

\* startAux: foosCh, stopFoos := c.client.GetResources(...); c.stopFoos = stopFoos
\* (addCRD has returned: its locals err and res are gone)
GetFoos ==
    /\ pc = "getFoos"
    /\ foosCh' = "open"
    /\ stopFoos' = "open"
    /\ pc' = "getDeployments"
    /\ err' = NoErr
    /\ res' = NoDelivery
    /\ UNCHANGED << deploymentsCh, sending, stopDeployments, stopPc, nStops >>
    /\ StatusUnchanged /\ ErrorsUnchanged /\ Silent

\* startAux: deploymentsCh, stopDeployments := c.client.GetDeployments(...);
\* c.stopDeployments = stopDeployments, then processResources up to its first
\* select
GetDeployments ==
    /\ pc = "getDeployments"
    /\ deploymentsCh' = "open"
    /\ stopDeployments' = "open"
    /\ pc' = "select"
    /\ UNCHANGED << err, res, foosCh, sending, stopFoos, stopPc, nStops >>
    /\ StatusUnchanged /\ ErrorsUnchanged /\ Silent

\* mutant of SendError: the close(c.Errors) after the send is missing
SendErrorNoClose ==
    /\ pc = "sendErr"
    /\ errorsSent' = Append(errorsSent, sending)
    /\ errorsClosed' = errorsClosed
    /\ sending' = "none"
    /\ pc' = "done"
    /\ err' = NoErr
    /\ res' = NoDelivery
    /\ UNCHANGED << foosCh, deploymentsCh >>
    /\ StatusUnchanged /\ Silent /\ StopUnchanged

\* The blocked `c.Errors <- ...` completes when the user of the controller
\* receives; the goroutine then closes c.Errors (startAux line 303, or the
\* deferred close of processResources) and returns.
SendError ==
    /\ pc = "sendErr"
    /\ errorsSent' = Append(errorsSent, sending)
    /\ errorsClosed' = errorsClosed + 1
    /\ sending' = "none"
    /\ pc' = "done"
    /\ err' = NoErr
    /\ res' = NoDelivery
    /\ UNCHANGED << foosCh, deploymentsCh >>
    /\ StatusUnchanged /\ Silent /\ StopUnchanged

\* one more delivery handled, as far as the model counts them
Counted(n) == IF n < MaxEvents THEN n + 1 ELSE n

\* processResources is left: `status` goes out of scope, nothing reads the
\* watch streams or the rate limiter any more
Discard ==
    /\ foos' = EmptyMap /\ deployments' = EmptyMap /\ todo' = {}
    /\ rl' = 0 /\ inflight' = EmptyMap /\ nEvents' = 0

\* the bottom of the loop: `if deploymentsCh == nil && foosCh == nil { return }`,
\* the return running the deferred close(c.Errors); st is the loop's state
\* after the case that ran
EndOfIteration(dc, fc, st) ==
    IF BothClosed(dc, fc)
    THEN /\ pc' = "done"
         /\ errorsClosed' = errorsClosed + 1
         /\ Discard
         /\ UNCHANGED << sending, errorsSent >>
    ELSE /\ pc' = "select"
         /\ foos' = st.foos /\ deployments' = st.deployments /\ todo' = st.todo
         /\ rl' = st.rl /\ inflight' = st.inflight /\ nEvents' = st.nEvents
         /\ UNCHANGED << sending, errorsSent, errorsClosed >>

\* the loop's state when a case starts
Status ==
    [foos |-> foos, deployments |-> deployments, todo |-> todo, rl |-> rl,
     inflight |-> inflight, nEvents |-> nEvents]

\* mutant of ReturnError: the error is dropped and the loop goes on
IgnoreError(what) ==
    /\ pc' = "select"
    /\ sending' = sending
    /\ UNCHANGED << foos, deployments, todo, rl, inflight, nEvents >>
    /\ ErrorsUnchanged

\* `c.Errors <- fmt.Errorf(...); return`: the goroutine blocks in the send
ReturnError(what) ==
    /\ pc' = "sendErr"
    /\ sending' = what
    /\ Discard
    /\ ErrorsUnchanged

\* case d, ok := <-deploymentsCh, with d.Err != nil
DeploymentsErr ==
    /\ pc = "select" /\ deploymentsCh = "open"
    /\ ReturnError("Reading deployments")
    /\ last' = "deploymentsErr" /\ ev' = NoEvent /\ calls' = << >>
    /\ passes' = passes /\ StopUnchanged /\ UNCHANGED everFoos
    /\ UNCHANGED << err, res, foosCh, deploymentsCh >>

\* case d, ok := <-deploymentsCh, with !ok
DeploymentsClosed ==
    /\ pc = "select" /\ deploymentsCh = "open"
    /\ deploymentsCh' = "nil"
    /\ nEvents < MaxEvents \/ stopDeployments = "closed"
    /\ EndOfIteration("nil", foosCh, [Status EXCEPT !.nEvents = Counted(@)])
    /\ last' = "deploymentsClosed" /\ ev' = NoEvent /\ calls' = << >>
    /\ passes' = passes /\ StopUnchanged /\ UNCHANGED everFoos
    /\ UNCHANGED << err, res, foosCh >>

\* case d, ok := <-deploymentsCh, with an item; infl is what the server still
\* has to deliver after it
HandleDeployment(item, isDelete, infl, n, t) ==
    LET o == FirstOfKind(item.ownerReferences)
    IN  /\ pc = "select" /\ deploymentsCh = "open"
        /\ t \in (IF o # 0 THEN AskTick(rl) ELSE {rl})
        /\ last' = "deployment" /\ ev' = Event(item.name, isDelete, "") /\ calls' = << >>
        /\ passes' = passes /\ StopUnchanged /\ UNCHANGED everFoos
        /\ EndOfIteration(deploymentsCh, foosCh,
              [foos |-> foos,
               deployments |-> IF isDelete THEN Del(deployments, item.name)
                               ELSE Put(deployments, item.name, item),
               todo |-> IF o # 0 THEN todo \cup {item.ownerReferences[o].name} ELSE todo,
               rl |-> t,
               inflight |-> infl,
               nEvents |-> n])
        /\ UNCHANGED << err, res, foosCh, deploymentsCh >>

\* the watch delivers a deployment somebody else created or changed
ManagedUpsert(name, replicas, refs, t) ==
    /\ nEvents < MaxEvents
    /\ name \notin DOMAIN inflight
    /\ HandleDeployment(Deployment(name, replicas, refs, NextRV(deployments, name)),
                        FALSE, inflight, nEvents + 1, t)

\* the watch delivers the deletion of a deployment, with its last state
ManagedDelete(name, t) ==
    /\ nEvents < MaxEvents
    /\ name \in DOMAIN deployments
    /\ name \notin DOMAIN inflight
    /\ HandleDeployment(deployments[name], TRUE, inflight, nEvents + 1, t)

\* the watch delivers a deployment as our own create or update call left it
ManagedOwn(name, t) ==
    /\ name \in DOMAIN inflight
    /\ HandleDeployment(inflight[name], FALSE, Del(inflight, name), nEvents, t)

\* case f, ok := <-foosCh, with f.Err != nil
FoosErr ==
    /\ pc = "select" /\ foosCh = "open"
    /\ ReturnError("Reading Foos")
    /\ last' = "foosErr" /\ ev' = NoEvent /\ calls' = << >>
    /\ passes' = passes /\ StopUnchanged /\ UNCHANGED everFoos
    /\ UNCHANGED << err, res, foosCh, deploymentsCh >>

\* case f, ok := <-foosCh, with !ok
FoosClosed ==
    /\ pc = "select" /\ foosCh = "open"
    /\ foosCh' = "nil"
    /\ nEvents < MaxEvents \/ stopFoos = "closed"
    /\ EndOfIteration(deploymentsCh, "nil", [Status EXCEPT !.nEvents = Counted(@)])
    /\ last' = "foosClosed" /\ ev' = NoEvent /\ calls' = << >>
    /\ passes' = passes /\ StopUnchanged /\ UNCHANGED everFoos
    /\ UNCHANGED << err, res, deploymentsCh >>

\* the item of the delete event for Foo n: the Foo as the stream last showed it
DeletedFoo(n) == IF n \in DOMAIN foos THEN foos[n] ELSE Foo(n, "d1", 1)

\* mutant of HandleFoo: delete(status.foos, item.Name) (line 262) left out
HandleFooNoDelete(item, isDelete, t) ==
    /\ pc = "select" /\ foosCh = "open"
    /\ nEvents < MaxEvents
    /\ last' = "foo" /\ calls' = << >>
    /\ ev' = Event(item.name, isDelete,
                   IF item.name \in DOMAIN foos THEN foos[item.name].deploymentName ELSE "")
    /\ passes' = passes /\ StopUnchanged
    /\ everFoos' = IF isDelete THEN everFoos ELSE everFoos \cup {item.name}
    /\ EndOfIteration(deploymentsCh, foosCh,
          [foos |-> IF isDelete THEN foos ELSE Put(foos, item.name, item),
           deployments |-> deployments,
           todo |-> todo \cup {item.name},
           rl |-> t,
           inflight |-> inflight,
           nEvents |-> nEvents + 1])
    /\ UNCHANGED << err, res, foosCh, deploymentsCh >>

\* case f, ok := <-foosCh, with an item
HandleFoo(item, isDelete, t) ==
    /\ pc = "select" /\ foosCh = "open"
    /\ nEvents < MaxEvents
    /\ last' = "foo" /\ calls' = << >>
    /\ ev' = Event(item.name, isDelete,
                   IF item.name \in DOMAIN foos THEN foos[item.name].deploymentName ELSE "")
    /\ passes' = passes /\ StopUnchanged
    /\ everFoos' = IF isDelete THEN everFoos ELSE everFoos \cup {item.name}
    /\ EndOfIteration(deploymentsCh, foosCh,
          [foos |-> IF isDelete THEN Del(foos, item.name) ELSE Put(foos, item.name, item),
           deployments |-> deployments,
           todo |-> todo \cup {item.name},
           rl |-> t,
           inflight |-> inflight,
           nEvents |-> nEvents + 1])
    /\ UNCHANGED << err, res, foosCh, deploymentsCh >>

\* mutant of Tick: the c.rl.AskTick() after a failed synchronize (line 272)
\* left out
TickNoRetry(order, failAt, t) ==
    /\ pc = "select" /\ rl > 0
    /\ LET st == synchronize(order, failAt, foos, deployments, todo, inflight)
       IN  /\ calls' = st.calls
           /\ t \in {rl - 1}
           /\ EndOfIteration(deploymentsCh, foosCh,
                 [foos |-> foos, deployments |-> deployments, todo |-> st.todo,
                  rl |-> t, inflight |-> st.inflight, nEvents |-> nEvents])
    /\ last' = "tick" /\ ev' = NoEvent
    /\ passes' = 1 - passes /\ StopUnchanged /\ UNCHANGED everFoos
    /\ UNCHANGED << err, res, foosCh, deploymentsCh >>

\* case <-c.rl.GetChan(): the limiter delivers one of the ticks it owes
Tick(order, failAt, t) ==
    /\ pc = "select" /\ rl > 0
    /\ LET st == synchronize(order, failAt, foos, deployments, todo, inflight)
       IN  /\ calls' = st.calls
           /\ t \in (IF st.err THEN AskTick(rl - 1) ELSE {rl - 1})
           /\ EndOfIteration(deploymentsCh, foosCh,
                 [foos |-> foos, deployments |-> deployments, todo |-> st.todo,
                  rl |-> t, inflight |-> st.inflight, nEvents |-> nEvents])
    /\ last' = "tick" /\ ev' = NoEvent
    /\ passes' = 1 - passes /\ StopUnchanged /\ UNCHANGED everFoos
    /\ UNCHANGED << err, res, foosCh, deploymentsCh >>

\* ------------------------------------------------------------- RequestStop
\* close(ch) on a channel already closed panics
Panics(ch) == ch = "closed"
\* `if ch != nil { close(ch) }` when it does not panic
AfterClose(ch) == IF ch = "open" THEN "closed" ELSE ch

\* the runtime ends the process, the startAux goroutine with it
Panic ==
    /\ pc' = "panic"
    /\ Discard
    /\ UNCHANGED << err, res, foosCh, deploymentsCh, sending, errorsSent, errorsClosed >>
    /\ Silent

Running ==
    /\ UNCHANGED << pc, err, res, foosCh, deploymentsCh, sending, errorsSent, errorsClosed >>
    /\ StatusUnchanged /\ Silent

\* What RequestStop may read from a field that startAux writes without any
\* synchronisation: the channel once it is closed (the caller closed it itself),
\* and either nil or the channel while it is open.
Visible(ch) == IF ch = "open" THEN {"nil", "open"} ELSE {ch}

\* RequestStop, first half: if c.stopFoos != nil { close(c.stopFoos) }
RequestStopFoos ==
    /\ pc # "panic" /\ stopPc = "idle" /\ nStops < MaxStops
    /\ nStops' = nStops + 1
    /\ \E seen \in Visible(stopFoos) :
         IF Panics(seen)
           THEN Panic /\ UNCHANGED << stopFoos, stopPc >>
           ELSE /\ Running
                /\ stopFoos' = IF seen = "nil" THEN stopFoos ELSE AfterClose(seen)
                /\ stopPc' = "mid"
    /\ UNCHANGED stopDeployments

\* RequestStop, second half: if c.stopDeployments != nil { close(c.stopDeployments) }
RequestStopDeployments ==
    /\ pc # "panic" /\ stopPc = "mid"
    /\ \E seen \in Visible(stopDeployments) :
         IF Panics(seen)
           THEN Panic /\ UNCHANGED stopDeployments
           ELSE /\ Running
                /\ stopDeployments' = IF seen = "nil" THEN stopDeployments ELSE AfterClose(seen)
    /\ stopPc' = "idle"
    /\ UNCHANGED << stopFoos, nStops >>

Next ==
    \/ \E e \in CreateResults : AddCRD(e)
    \/ \E r \in SchemaDeliveries : WatchCRD(r)
    \/ GetFoos
    \/ GetDeployments
    \/ SendError
    \/ DeploymentsErr
    \/ DeploymentsClosed
    \/ \E n \in DepNames, r \in Replicas, o \in ForeignOwnerLists, t \in 0..MaxTicks :
          ManagedUpsert(n, r, o, t)
    \/ \E n \in DepNames, t \in 0..MaxTicks : ManagedDelete(n, t)
    \/ \E n \in DepNames, t \in 0..MaxTicks : ManagedOwn(n, t)
    \/ FoosErr
    \/ FoosClosed
    \/ \E f \in FooItems, t \in AskTick(rl) : HandleFoo(f, FALSE, t)
    \/ \E n \in FooNames, t \in AskTick(rl) : HandleFoo(DeletedFoo(n), TRUE, t)
    \/ \E o \in Orders(todo), k \in 0..Cardinality(todo), t \in 0..MaxTicks :
          Tick(o, k, t)

\* The controller when its user never calls RequestStop.
Spec == Init /\ [][Next]_vars

\* The controller, never stopped, in a run with room for Slack more deliveries.
DeepInit ==
    /\ pc = "addCRD"
    /\ err = NoErr
    /\ res = NoDelivery
    /\ foosCh = "unopened"
    /\ deploymentsCh = "unopened"
    /\ foos = EmptyMap
    /\ deployments = EmptyMap
    /\ todo = {}
    /\ rl = 0
    /\ inflight = EmptyMap
    /\ sending = "none"
    /\ errorsSent = << >>
    /\ errorsClosed = 0
    /\ last = "none"
    /\ ev = NoEvent
    /\ calls = << >>
    /\ nEvents = 0 - Slack
    /\ passes = 0
    /\ stopFoos = "nil"
    /\ stopDeployments = "nil"
    /\ stopPc = "idle"
    /\ nStops = 0
    /\ everFoos = {}

DeepSpec == DeepInit /\ [][Next]_vars

\* The controller with a user who calls RequestStop, up to MaxStops times, at
\* any moment after NewController has returned.
StopNext ==
    \/ Next
    \/ RequestStopFoos
    \/ RequestStopDeployments

StopSpec == Init /\ [][StopNext]_vars

\* a step of the reactor running synchronize
TickStep == \E o \in Orders(todo), k \in 0..Cardinality(todo), t \in 0..MaxTicks : Tick(o, k, t)

\* The controller under a rate limiter that delivers every tick it owes, the
\* select taking the tick case when it stays ready; calls may fail for ever.
TickSpec == Spec /\ WF_vars(TickStep)

\* a pass none of whose calls fails on the way to the server
SuccessfulPass == \E o \in Orders(todo), t \in 0..MaxTicks : Tick(o, 0, t)
\* the managed watch delivering what our own calls wrote
OwnDelivery == \E n \in DepNames, t \in 0..MaxTicks : ManagedOwn(n, t)

\* The reactor under a rate limiter that delivers the ticks it owes, calls
\* that eventually get through, and a watch that eventually delivers.
LiveSpec == Spec /\ WF_vars(SuccessfulPass) /\ WF_vars(OwnDelivery)

\* ------------------------------------------------------------- properties
BothNil == deploymentsCh = "nil" /\ foosCh = "nil"
Returned == pc \in {"sendErr", "done"}

\* a step of the reactor running synchronize, seen from the state before it
PassStep == pc = "select" /\ last' = "tick" /\ TickStep
\* the calls of cs made for the dirty name n
CallsFor(n, cs) == {i \in 1..Len(cs) : cs[i].item = n}
\* the last synchronize returned an error
SyncFailed == last = "tick" /\ calls # << >> /\ ~calls[Len(calls)].ok

HasOwnerOfKind(refs) == \E i \in 1..Len(refs) : refs[i].kind = Kind

\* a step of the reactor handling a deployment event whose record has no owner
\* reference of kind Foo
UnownedDeploymentStep ==
    \/ \E n \in DepNames, r \in Replicas, o \in ForeignOwnerLists, t \in 0..MaxTicks :
          /\ ~HasOwnerOfKind(o)
          /\ ManagedUpsert(n, r, o, t)
          /\ n \in DOMAIN deployments' /\ deployments'[n].ownerReferences = o
          /\ deployments'[n].replicas = r
    \/ \E n \in DepNames, t \in 0..MaxTicks :
          /\ n \in DOMAIN deployments /\ ~HasOwnerOfKind(deployments[n].ownerReferences)
          /\ ManagedDelete(n, t)
          /\ n \notin DOMAIN deployments'

\* "controlled by" as the specification words it: an owner reference of kind
\* Foo with the controller flag that names the Foo
NamedAsController(dep, foo) ==
    \E i \in 1..Len(dep.ownerReferences) :
        /\ dep.ownerReferences[i].kind = Kind
        /\ dep.ownerReferences[i].controller
        /\ dep.ownerReferences[i].name = foo.name

\* "controlled by" as a UID match: the first owner reference with the
\* controller flag carries the Foo's UID
ControllerUIDMatches(dep, foo) ==
    \E i \in 1..Len(dep.ownerReferences) :
        /\ dep.ownerReferences[i].controller
        /\ dep.ownerReferences[i].uid = foo.uid
        /\ \A j \in 1..(i - 1) : ~dep.ownerReferences[j].controller

\* the Foo named n exists and the deployment it targets is in the snapshot
HasTarget(n) == n \in DOMAIN foos /\ foos[n].deploymentName \in DOMAIN deployments
Target(n) == deployments[foos[n].deploymentName]

\* C1 as stated: in every pass, a dirty name whose Foo exists and whose target
\* deployment is in the snapshot without an owner reference of kind Foo, with
\* the controller flag, naming that Foo, gets no call and stays dirty.
C1_OwnershipByName ==
    [][ PassStep =>
          \A n \in todo :
             (HasTarget(n) /\ ~NamedAsController(Target(n), foos[n]))
                => (n \in todo' /\ CallsFor(n, calls') = {}) ]_vars

\* C1 amended: in every pass, a dirty name whose Foo exists and whose target
\* deployment is in the snapshot, its first controller owner reference
\* missing or carrying another UID than the Foo's, gets no call and stays
\* dirty.
C1_OwnershipByUID ==
    [][ PassStep =>
          \A n \in todo :
             (HasTarget(n) /\ ~ControllerUIDMatches(Target(n), foos[n]))
                => (n \in todo' /\ CallsFor(n, calls') = {}) ]_vars

\* C1 witness: a pass ran to its end and left dirty, without a call, a name
\* whose target is controlled by somebody else
C1_Witness ==
    /\ last = "tick" /\ ~SyncFailed
    /\ \E n \in todo :
          /\ HasTarget(n) /\ ~ControllerUIDMatches(Target(n), foos[n])
          /\ CallsFor(n, calls) = {}

C4_DeletedDropped ==
    [][ (last = "foo" /\ ev.IsDelete /\ PassStep) =>
          (ev.name \notin todo' /\ CallsFor(ev.name, calls') = {}) ]_vars

\* C4 amended: a pass makes no call for a dirty name without Foo (a deleted
\* Foo's name is one), and removes it from todo unless a failed call aborts
\* the pass.
C4_DeletedDroppedUnlessAborted ==
    [][ PassStep =>
          \A n \in todo :
             n \notin DOMAIN foos =>
                ( /\ CallsFor(n, calls') = {}
                  /\ ~SyncFailed' => n \notin todo' ) ]_vars

\* C4 witness: a Foo was delivered and then its deletion, nothing else; no
\* call was ever made and the last case, a pass, left todo empty
C4_Witness ==
    /\ last = "tick" /\ nEvents = 2 /\ foosCh = "open" /\ deploymentsCh = "open"
    /\ foos = EmptyMap /\ deployments = EmptyMap /\ inflight = EmptyMap
    /\ todo = {} /\ calls = << >> /\ rl = 0

C6_FailFast ==
    /\ [][ (DeploymentsErr \/ FoosErr) => pc' = "sendErr" ]_vars
    /\ [][ (last \in {"deploymentsErr", "foosErr"}) =>
             ( /\ last' = last /\ calls' = calls /\ nEvents' = nEvents
               /\ foos' = foos /\ deployments' = deployments /\ todo' = todo
               /\ inflight' = inflight /\ foosCh' = foosCh /\ deploymentsCh' = deploymentsCh
               /\ Returned' ) ]_vars
    /\ [](last \in {"deploymentsErr", "foosErr"} =>
             ( \/ pc = "sendErr" /\ errorsSent = << >> /\ errorsClosed = 0
               \/ pc = "done" /\ Len(errorsSent) = 1 /\ errorsClosed = 1 ))

\* C6 witness: the deployments stream failed while the Foo stream was still
\* open; one error was received and the reactor is gone
C6_Witness ==
    /\ last = "deploymentsErr" /\ pc = "done" /\ foosCh = "open"
    /\ errorsSent = << "Reading deployments" >> /\ errorsClosed = 1

\* C7: without a watch error the reactor returns only from the case that sees
\* the second stream closed, and returns from that very case; with one
\* stream closed it still serves the other stream and the ticks.
C7_CleanTermination ==
    /\ [][ (pc = "select" /\ pc' = "done") =>
             ( /\ BothNil'
               /\ (DeploymentsClosed \/ FoosClosed)
               /\ errorsClosed' = errorsClosed + 1 ) ]_vars
    /\ [][ (DeploymentsClosed \/ FoosClosed) => (pc' = "done") = BothNil' ]_vars
    /\ [](pc = "select" => ~BothNil)
    /\ [](pc = "select" /\ foosCh = "nil" =>
             ( /\ ENABLED DeploymentsErr
               /\ nEvents < MaxEvents => ENABLED DeploymentsClosed
               /\ rl > 0 => ENABLED TickStep ))
    /\ [](pc = "select" /\ deploymentsCh = "nil" =>
             ( /\ ENABLED FoosErr
               /\ nEvents < MaxEvents => ENABLED FoosClosed
               /\ rl > 0 => ENABLED TickStep ))

\* C7 witness: both streams closed, no error, the reactor returned
C7_Witness ==
    /\ pc = "done" /\ BothNil /\ errorsSent = << >> /\ errorsClosed = 1
    /\ last \in {"deploymentsClosed", "foosClosed"}

\* C8: c.Errors is closed at most once and exactly once when the goroutine is
\* done, carries at most one error, nothing is sent once it is closed, and it
\* is closed without an error only when both streams were seen closed.
C8_ErrorsProtocol ==
    /\ [](errorsClosed <= 1 /\ Len(errorsSent) <= 1)
    /\ []((pc = "done") = (errorsClosed = 1))
    /\ [](pc = "sendErr" => errorsClosed = 0 /\ errorsSent = << >>)
    /\ [](errorsClosed = 1 /\ errorsSent = << >> => BothNil)
    /\ [][ errorsClosed >= 1 => errorsSent' = errorsSent /\ errorsClosed' = errorsClosed ]_vars

\* C8 witness: the schema install failed, its error was received and the
\* channel closed, before any watch was opened
C8_Witness ==
    /\ pc = "done" /\ errorsSent = << "Could not add CRD" >> /\ errorsClosed = 1
    /\ foosCh = "unopened" /\ deploymentsCh = "unopened"

\* ------------------------------------------------------------- C9, C10
\* C9 as stated: a create error with status 409 lets the installer go on as a
\* success does; after any other create error the installer has returned it
\* (the reactor is sending it on c.Errors), the schema watch has delivered
\* nothing and no instance watch was opened.
C9_InstallErrorAborts ==
    /\ (err = RequestError(409)) => pc \in {"watchCRD", "getFoos", "sendErr"}
    /\ (~err.isNil /\ err # RequestError(409)) =>
          /\ pc = "sendErr" /\ sending = "Could not add CRD"
          /\ res = NoDelivery
          /\ foosCh = "unopened" /\ deploymentsCh = "unopened"

\* C10 as stated: addCRD returns nil, and startAux goes on to open the
\* instance watches, only when the delivery it last read from the schema
\* watch is a non-delete item with the condition Established = True.
C10_ReadinessGate ==
    pc = "getFoos" =>
       /\ ~res.none /\ ~res.closed /\ ~res.Err /\ ~res.IsDelete
       /\ IsEstablished(res.Conditions)

\* ------------------------------------------------------------- C2
\* the deployment Foo n targets is absent from the server, or Foo n is its
\* controller, by UID and by kind and name
NoConflictOn(n) ==
    LET cluster == Cluster(deployments, inflight)
        T == foos[n].deploymentName
    IN  T \in DOMAIN cluster =>
           (IsControlledBy(cluster[T], foos[n]) /\ NamedAsController(cluster[T], foos[n]))

\* the server holds the deployment Foo n targets with Foo n's replicas, and n
\* is not dirty
ConvergedOn(n) ==
    LET cluster == Cluster(deployments, inflight)
        T == foos[n].deploymentName
    IN  /\ T \in DOMAIN cluster /\ cluster[T].replicas = foos[n].replicas
        /\ n \notin todo

\* C2 as stated: while the reactor runs, every Foo without ownership conflict
\* on its target eventually has the target at its replicas and its name out of
\* todo, and (the events being finitely many) it stays so.
C2_Convergence ==
    <>[](pc = "select" => \A n \in DOMAIN foos : NoConflictOn(n) => ConvergedOn(n))

\* ------------------------------------------------------------- C11
\* the position of name n in the order o
PositionIn(o, n) == CHOOSE j \in 1..Len(o) : o[j] = n
\* some call of the pass cs failed
SomeCallFailed(cs) == \E i \in 1..Len(cs) : ~cs[i].ok

\* C11: when a call of a pass fails it is the last call of the pass (the pass
\* stops there), the error comes back (the reactor owes a tick after it), the
\* name the call was made for and every name the range had not reached yet
\* are still in todo, and foos and deployments are as before the pass.
C11_PassAbortsOnFailure ==
    [][ \A o \in Orders(todo), k \in 0..Cardinality(todo), t \in 0..MaxTicks :
          (pc = "select" /\ Tick(o, k, t) /\ SomeCallFailed(calls')) =>
             /\ \A i \in 1..Len(calls') : calls'[i].ok <=> i < Len(calls')
             /\ \A j \in PositionIn(o, calls'[Len(calls')].item)..Len(o) :
                    o[j] \in todo'
             /\ foos' = foos /\ deployments' = deployments
             /\ rl' > 0 ]_vars

\* C11 witness: two Foos are dirty and no deployment is known, so each needs a
\* create; the pass made one call, which failed, and both names are still dirty
C11_Witness ==
    /\ last = "tick" /\ Len(calls) = 1 /\ ~calls[1].ok
    /\ DOMAIN foos = {"x", "y"} /\ todo = {"x", "y"}
    /\ deployments = EmptyMap /\ inflight = EmptyMap

\* ------------------------------------------------------------- C12
\* C12: a pass that returns an error leaves the reactor in its loop with a
\* tick owed, nothing sent on c.Errors and c.Errors open as before; and after
\* such a pass another pass runs, or the reactor has left its loop on a watch
\* error or the second close, whether or not a watch event arrives.
C12_FailureRetried ==
    /\ [][ (PassStep /\ SomeCallFailed(calls')) =>
             ( /\ pc' = "select" /\ rl' > 0
               /\ sending' = sending /\ errorsSent' = errorsSent
               /\ errorsClosed' = errorsClosed ) ]_vars
    /\ \A b \in {0, 1} :
          (pc = "select" /\ SyncFailed /\ passes = b) ~> (pc # "select" \/ passes # b)

\* C12 witness: one Foo was delivered and nothing else; two passes have run,
\* so the first failed; the second made the create and emptied todo
C12_Witness ==
    /\ last = "tick" /\ passes = 0 /\ nEvents = 1 /\ DOMAIN foos # {}
    /\ Len(calls) = 1 /\ calls[1].ok /\ calls[1].op = "create" /\ todo = {}

\* ------------------------------------------------------------- C13
\* some dirty name is in conflict: the deployment its Foo targets is in the
\* snapshot and not controlled by the Foo
ConflictInTodo == \E n \in todo : Branch(n, foos, deployments) = "conflict"

\* C13 as stated: after a pass that left a name dirty on an ownership conflict
\* another pass runs, unless the reactor has left its loop or the conflict is
\* gone, whether or not a watch event arrives.
C13_ConflictRetried ==
    \A b \in {0, 1} :
       (pc = "select" /\ last = "tick" /\ ConflictInTodo /\ passes = b)
          ~> (pc # "select" \/ passes # b \/ ~ConflictInTodo)

\* ------------------------------------------------------------- C14
\* C14 as stated: every dirty name is a key of status.foos or was one earlier
\* in the run.
C14_DirtyWereKeys == todo \subseteq (DOMAIN foos \cup everFoos)

\* the owner references of the deployment the event just handled carried
EventOwners ==
    IF ev'.IsDelete THEN deployments[ev'.name].ownerReferences
    ELSE deployments'[ev'.name].ownerReferences

\* C14 amended: a name enters todo only when the reactor handles a Foo event
\* (upsert or delete) carrying that name, or a deployment event whose record
\* has an owner reference of kind Foo with that name; a pass adds no name.
\* The name need never have been a key of status.foos.
C14_DirtyNamesComeFromEvents ==
    [][ (pc = "select" /\ pc' = "select") =>
          \A n \in todo' \ todo :
             \/ last' = "foo" /\ ev'.name = n
             \/ /\ last' = "deployment"
                /\ \E i \in 1..Len(EventOwners) :
                      EventOwners[i].kind = Kind /\ EventOwners[i].name = n ]_vars

\* C14 witness: a deployment event has just marked y, named by an owner
\* reference, and no Foo y was ever delivered
C14_Witness ==
    /\ last = "deployment" /\ "y" \in todo /\ "y" \notin everFoos
    /\ ev.name \in DOMAIN deployments
    /\ \E i \in 1..Len(deployments[ev.name].ownerReferences) :
          deployments[ev.name].ownerReferences[i].name = "y"

\* ------------------------------------------------------------- C15
\* the calls of cs made for name n are exactly one, and it is the create or
\* the update the claim describes for Foo n and the snapshot deps
OneCallAsDescribed(n, cs, deps) ==
    LET T == foos[n].deploymentName
    IN  /\ Cardinality(CallsFor(n, cs)) = 1
        /\ \A i \in CallsFor(n, cs) :
              /\ cs[i].op = (IF T \in DOMAIN deps THEN "update" ELSE "create")
              /\ cs[i].obj.name = T
              /\ cs[i].obj.replicas = foos[n].replicas
              /\ cs[i].obj.ownerReferences =
                    << OwnerReference(Kind, n, foos[n].uid, TRUE) >>
              /\ cs[i].obj.resourceVersion =
                    (IF T \in DOMAIN deps THEN deps[T].resourceVersion ELSE NoRV)

\* Foo n exists and its target is absent or has other replicas
NotConverged(n) ==
    /\ n \in DOMAIN foos
    /\ HasTarget(n) => Target(n).replicas # foos[n].replicas

\* C15 as stated: a pass makes exactly one call, as described, for every dirty
\* name with a Foo that is neither in conflict (its target, if in the
\* snapshot, names the Foo as controller) nor converged.
C15_OneCallPerDirtyName ==
    [][ PassStep =>
          \A n \in todo :
             ( /\ NotConverged(n)
               /\ HasTarget(n) => NamedAsController(Target(n), foos[n]) )
             => OneCallAsDescribed(n, calls', deployments) ]_vars

\* the range over `o` got to name n: no call failed before its turn
Reached(o, n, cs) ==
    SomeCallFailed(cs) => PositionIn(o, n) <= PositionIn(o, cs[Len(cs)].item)

\* C15 amended: with conflict read as the UID test of C1, a pass makes exactly
\* one call, as described, for every such name its range gets to, and no call
\* for the names it does not get to because an earlier call failed.
C15_OneCallPerNameReached ==
    [][ \A o \in Orders(todo), k \in 0..Cardinality(todo), t \in 0..MaxTicks :
          (pc = "select" /\ Tick(o, k, t)) =>
             \A n \in todo :
                ( /\ NotConverged(n)
                  /\ HasTarget(n) => ControllerUIDMatches(Target(n), foos[n]) )
                => IF Reached(o, n, calls')
                   THEN OneCallAsDescribed(n, calls', deployments)
                   ELSE CallsFor(n, calls') = {} ]_vars

\* C15 witness: the last pass made an update that carried the resource version
\* of the deployment in the snapshot, and the server took it
C15_Witness ==
    /\ last = "tick" /\ Len(calls) = 1
    /\ calls[1].op = "update" /\ calls[1].ok
    /\ calls[1].obj.name \in DOMAIN deployments
    /\ calls[1].obj.resourceVersion = deployments[calls[1].obj.name].resourceVersion
    /\ calls[1].obj.replicas # deployments[calls[1].obj.name].replicas

\* ------------------------------------------------------------- C16
\* the names of the owner references of kind Foo with the controller flag
ControllerNamesOfKind(refs) ==
    {refs[i].name : i \in {j \in 1..Len(refs) : refs[j].kind = Kind /\ refs[j].controller}}

\* C16 as stated: the handling of a deployment event adds a name to todo, or
\* changes the ticks owed, only if the record has an owner reference of kind
\* Foo with the controller flag, and a name it adds is the name of such a
\* reference.
C16_MarksControllerOnly ==
    [][ (pc = "select" /\ pc' = "select" /\ last' = "deployment"
            /\ (todo' # todo \/ rl' # rl)) =>
          ( /\ ControllerNamesOfKind(EventOwners) # {}
            /\ (todo' \ todo) \subseteq ControllerNamesOfKind(EventOwners) ) ]_vars

\* ------------------------------------------------------------- C17
\* C17: whatever case the select takes, a Foo event is applied to status.foos
\* as the map stands when the event is handled (an upsert puts the item under
\* its name, a delete removes the name) and leaves status.deployments alone;
\* a deployment event does the same to status.deployments and leaves
\* status.foos alone; a pass and a close notification change neither map
\* (while the reactor stays in its loop). So each map is, at every moment,
\* its stream's handled events applied in delivery order.
C17_EventsAppliedInOrder ==
    [][ (pc = "select" /\ pc' = "select") =>
          ( /\ \A f \in FooItems, t \in 0..MaxTicks :
                  HandleFoo(f, FALSE, t) =>
                     (foos' = Put(foos, f.name, f) /\ deployments' = deployments)
            /\ \A n \in FooNames, t \in 0..MaxTicks :
                  HandleFoo(DeletedFoo(n), TRUE, t) =>
                     (foos' = Del(foos, n) /\ deployments' = deployments)
            /\ \A n \in DepNames, r \in Replicas, o \in ForeignOwnerLists, t \in 0..MaxTicks :
                  ManagedUpsert(n, r, o, t) =>
                     ( /\ n \in DOMAIN deployments'
                       /\ deployments'[n].replicas = r
                       /\ deployments'[n].ownerReferences = o
                       /\ \A m \in DepNames \ {n} :
                             /\ m \in DOMAIN deployments' <=> m \in DOMAIN deployments
                             /\ m \in DOMAIN deployments => deployments'[m] = deployments[m]
                       /\ foos' = foos )
            /\ \A n \in DepNames, t \in 0..MaxTicks :
                  ManagedOwn(n, t) =>
                     (deployments' = Put(deployments, n, inflight[n]) /\ foos' = foos)
            /\ \A n \in DepNames, t \in 0..MaxTicks :
                  ManagedDelete(n, t) =>
                     (deployments' = Del(deployments, n) /\ foos' = foos)
            /\ (TickStep \/ FoosClosed \/ DeploymentsClosed) =>
                  (foos' = foos /\ deployments' = deployments) ) ]_vars

\* C17 witness: Foo x was upserted and then deleted, the two deliveries of the
\* run; in that order they leave no Foo x
C17_Witness ==
    /\ last = "foo" /\ ev.name = "x" /\ ev.IsDelete /\ nEvents = 2
    /\ "x" \in everFoos /\ "x" \notin DOMAIN foos

\* ------------------------------------------------------------- C18
\* the case just run was an upsert that moved Foo ev.name from the target
\* ev.old to another one, and the deployment ev.old is in the snapshot
Retargeted ==
    /\ last = "foo" /\ ~ev.IsDelete /\ ev.old # ""
    /\ ev.old # foos[ev.name].deploymentName
    /\ ev.old \in DOMAIN deployments

\* every call of cs is made for a name with a Foo, on the deployment that Foo
\* now targets
CallsOnCurrentTargets(cs) ==
    \A i \in 1..Len(cs) :
       /\ cs[i].item \in DOMAIN foos
       /\ cs[i].obj.name = foos[cs[i].item].deploymentName

C19_StopNotLost ==
    (nStops >= 1 /\ stopPc = "idle" /\ pc # "panic") =>
        /\ stopFoos # "nil" => stopFoos = "closed"
        /\ stopDeployments # "nil" => stopDeployments = "closed"

\* ------------------------------------------------------------------- C20
\* C20: over any sequence of RequestStop calls no stop channel is closed a
\* second time: no half of RequestStop runs close on a channel that is
\* already closed.
C20_StopClosedAtMostOnce ==
    [][ /\ RequestStopFoos => ~Panics(stopFoos)
        /\ RequestStopDeployments => ~Panics(stopDeployments) ]_vars

====
